---- MODULE Spec2Model ----
(***************************************************************************)
(* Model of the glass-model package: the gstr token scanners               *)
(* (glass_model/gstr.py) and the layer / buildup classes with their gstr   *)
(* parser and serializer (glass_model/__init__.py).                        *)
(*                                                                         *)
(* A Python str is a sequence of one-character strings.  A Python number   *)
(* (int, float or None) is a record [k, neg, i, f]: k is "none", "int" or  *)
(* "float", neg the sign, i the integer part and f the fractional digits   *)
(* as str() prints them.  A raised exception is the value Raised.          *)
(***************************************************************************)
EXTENDS Integers, Sequences, FiniteSets, TLC

(***************************************************************************)
(* Characters and Python str helpers                                       *)
(***************************************************************************)
DigitChars == <<"0", "1", "2", "3", "4", "5", "6", "7", "8", "9">>

IsDigit(c) == \E d \in 1..10 : DigitChars[d] = c

DigitVal(c) == (CHOOSE d \in 1..10 : DigitChars[d] = c) - 1

\* characters that are not \w for the regular expression engine
NonWordChars == {"&", "-", "#", "(", ")", ".", " ", "+"}

IsWord(c) == c \notin NonWordChars

\* s[a..b] with 1-based inclusive positions, clipped to s as a Python slice is
Slice(s, a, b) ==
    LET lo == IF a < 1 THEN 1 ELSE a
        hi == IF b > Len(s) THEN Len(s) ELSE b
    IN  IF lo > hi THEN <<>> ELSE SubSeq(s, lo, hi)

\* the leftmost and the rightmost of a set of positions, 0 if there is none
Leftmost(hits) ==
    IF hits = {} THEN 0 ELSE CHOOSE i \in hits : \A j \in hits : i <= j

Rightmost(hits) ==
    IF hits = {} THEN 0 ELSE CHOOSE i \in hits : \A j \in hits : j <= i

\* index of the first occurrence of pat in s at or after position from, 0 if none
FindFrom(s, pat, from) ==
    Leftmost({i \in from..(Len(s) - Len(pat) + 1) :
                Slice(s, i, i + Len(pat) - 1) = pat})

\* pat in s
Contains(s, pat) == FindFrom(s, pat, 1) # 0

\* s.startswith(pat)
StartsWith(s, pat) == Len(s) >= Len(pat) /\ Slice(s, 1, Len(pat)) = pat

\* s.endswith(pat)
EndsWith(s, pat) ==
    Len(s) >= Len(pat) /\ Slice(s, Len(s) - Len(pat) + 1, Len(s)) = pat

\* s.split(pat): the pieces between the non-overlapping occurrences of pat,
\* found left to right
RECURSIVE Split(_, _)
\* the pieces of s, the first occurrence of pat being at i (0: none)
SplitAt(s, pat, i) ==
    IF i = 0 THEN <<s>>
    ELSE <<Slice(s, 1, i - 1)>> \o Split(Slice(s, i + Len(pat), Len(s)), pat)

Split(s, pat) == SplitAt(s, pat, FindFrom(s, pat, 1))

\* sep.join(parts)
RECURSIVE Join(_, _)
Join(parts, sep) ==
    IF parts = <<>> THEN <<>>
    ELSE IF Len(parts) = 1 THEN parts[1]
    ELSE parts[1] \o sep \o Join(Tail(parts), sep)

\* s.strip() for the blank character
RECURSIVE Strip(_)
Strip(s) ==
    IF s = <<>> THEN s
    ELSE IF Head(s) = " " THEN Strip(Tail(s))
    ELSE IF s[Len(s)] = " " THEN Strip(Slice(s, 1, Len(s) - 1))
    ELSE s

\* length of the maximal run of digits of s starting at position p
RECURSIVE DigitRun(_, _)
DigitRun(s, p) ==
    IF p <= Len(s) /\ IsDigit(s[p]) THEN 1 + DigitRun(s, p + 1) ELSE 0

\* length of the maximal run of '.' of s starting at position p
RECURSIVE DotRun(_, _)
DotRun(s, p) ==
    IF p <= Len(s) /\ s[p] = "." THEN 1 + DotRun(s, p + 1) ELSE 0

(***************************************************************************)
(* Python numbers                                                          *)
(***************************************************************************)
None == [k |-> "none", neg |-> FALSE, i |-> 0, f |-> <<>>]

PyInt(n) == [k |-> "int", neg |-> FALSE, i |-> n, f |-> <<>>]

PyFloat(n, frac) == [k |-> "float", neg |-> FALSE, i |-> n, f |-> frac]

\* the value a failed float() conversion leaves: the ValueError it raises
ValueError == [k |-> "error", neg |-> FALSE, i |-> 0, f |-> <<>>]

\* value of a string of decimal digits
RECURSIVE DigitsValue(_)
DigitsValue(ds) ==
    IF ds = <<>> THEN 0
    ELSE 10 * DigitsValue(Slice(ds, 1, Len(ds) - 1)) + DigitVal(ds[Len(ds)])

\* str(n) for a natural number n
RECURSIVE NatStr(_)
NatStr(n) ==
    IF n < 10 THEN <<DigitChars[n + 1]>>
    ELSE NatStr(n \div 10) \o <<DigitChars[(n % 10) + 1]>>

\* fractional digits without trailing zeros
RECURSIVE StripZeros(_)
StripZeros(ds) ==
    IF ds # <<>> /\ ds[Len(ds)] = "0" THEN StripZeros(Slice(ds, 1, Len(ds) - 1))
    ELSE ds

\* x = float(text); if x == int(x): return int(x); return x
\* text is [sign] digits* dots* digits*; more than one dot makes float() raise
IntOrFloat(neg, iv, fr) ==
    IF fr = <<>> THEN [k |-> "int", neg |-> neg /\ iv # 0, i |-> iv, f |-> <<>>]
    ELSE [k |-> "float", neg |-> neg, i |-> iv, f |-> fr]

Number(neg, intDigits, dots, fracDigits) ==
    IF dots > 1 THEN ValueError
    ELSE IntOrFloat(neg, DigitsValue(intDigits), StripZeros(fracDigits))

\* str(x) of a number, "None" for None
NumStr(n) ==
    IF n.k = "none" THEN <<"N", "o", "n", "e">>
    ELSE (IF n.neg THEN <<"-">> ELSE <<>>) \o NatStr(n.i)
         \o (IF n.k = "float" THEN <<".">> \o n.f ELSE <<>>)

\* truth value of a number in a Python condition: None and zero are false
Truthy(n) == n.k # "none" /\ ~(n.i = 0 /\ StripZeros(n.f) = <<>>)

\* Python ==, under which 6 == 6.0
NumEq(a, b) ==
    IF a.k = "none" \/ b.k = "none" THEN a.k = b.k
    ELSE a.neg = b.neg /\ a.i = b.i /\ StripZeros(a.f) = StripZeros(b.f)

\* a + b; adding None raises TypeError, modelled as the error number.
\* Floating-point rounding is abstracted: the sum is the exact decimal sum
\* of operands with at most four fractional digits.
PadFrac(ds) ==
    LET z == <<"0", "0", "0", "0">> IN Slice(ds \o z, 1, 4)

Scaled(n) == (IF n.neg THEN -1 ELSE 1) * (n.i * 10000 + DigitsValue(PadFrac(n.f)))

RECURSIVE FracStr(_, _)
FracStr(v, width) ==
    IF width = 0 THEN <<>>
    ELSE FracStr(v \div 10, width - 1) \o <<DigitChars[(v % 10) + 1]>>

\* the int, or the float, of magnitude m / 10000
Unscaled(isInt, neg, m, fr) ==
    IF isInt THEN [k |-> "int", neg |-> neg, i |-> m \div 10000, f |-> <<>>]
    ELSE [k |-> "float", neg |-> neg, i |-> m \div 10000,
          f |-> IF fr = <<>> THEN <<"0">> ELSE fr]

SignedUnscaled(isInt, neg, m) ==
    Unscaled(isInt, neg, m, StripZeros(FracStr(m % 10000, 4)))

FromScaled(isInt, v) == SignedUnscaled(isInt, v < 0, IF v < 0 THEN -v ELSE v)

NumAdd(a, b) ==
    IF a.k \in {"none", "error"} \/ b.k \in {"none", "error"} THEN ValueError
    ELSE FromScaled(a.k = "int" /\ b.k = "int", Scaled(a) + Scaled(b))

(***************************************************************************)
(* gstr.Protocol                                                           *)
(***************************************************************************)
IGDB_START == <<"#">>
IGDB_OPEN_BRACKET == <<"(">>
IGDB_CLOSE_BRACKET == <<")">>
IGDB_FLIP == <<"x">>
GAS_SEPARATOR == <<"_">>
INTERLAYER_SEPARATOR == <<"&">>
META == <<"-">>
WIDTH == <<"W">>
HEIGHT == <<"H">>
SUPPORT == <<"S", "U", "P", "P", "O", "R", "T">>
LAM == <<"L", "A", "M">>

(***************************************************************************)
(* gstr token scanners                                                     *)
(***************************************************************************)
\* find_enclosed_brackets: one left-to-right pass with a stack of the open
\* positions.  An unmatched bracket is only printed: the function returns
\* the list of pairs in every case, so raised is FALSE for every input.
\* Positions are 1-based.
RECURSIVE ScanBrackets(_, _, _, _)
ScanBrackets(s, i, stack, pairs) ==
    IF i > Len(s) THEN [raised |-> FALSE, pairs |-> pairs]
    ELSE IF s[i] = "(" THEN ScanBrackets(s, i + 1, Append(stack, i), pairs)
    ELSE IF s[i] = ")" /\ stack # <<>>
         THEN ScanBrackets(s, i + 1, Slice(stack, 1, Len(stack) - 1),
                           Append(pairs, <<stack[Len(stack)], i>>))
    ELSE ScanBrackets(s, i + 1, stack, pairs)

find_enclosed_brackets(s) == ScanBrackets(s, 1, <<>>, <<>>)

\* the text matched by marker([-+]?(?:\d*\.*\d+)) at position p of s, as a
\* number, or None when the pattern does not match at p
\* \d*\.*\d+ at position a: d1 digits, then dots dots, then d2 digits; with
\* no digit after the dots the engine backtracks to the d1 digits alone
MatchDigits(s, neg, a, d1, dots, d2) ==
    IF d2 > 0
    THEN Number(neg, Slice(s, a, a + d1 - 1), dots,
                Slice(s, a + d1 + dots, a + d1 + dots + d2 - 1))
    ELSE IF d1 > 0 THEN Number(neg, Slice(s, a, a + d1 - 1), 0, <<>>)
    ELSE None

MatchDots(s, neg, a, d1, dots) ==
    MatchDigits(s, neg, a, d1, dots, DigitRun(s, a + d1 + dots))

MatchUnsigned(s, neg, a, d1) == MatchDots(s, neg, a, d1, DotRun(s, a + d1))

\* [-+]?(?:\d*\.*\d+) at position q
MatchSigned(s, q) ==
    IF q <= Len(s) /\ s[q] \in {"-", "+"}
    THEN MatchUnsigned(s, s[q] = "-", q + 1, DigitRun(s, q + 1))
    ELSE MatchUnsigned(s, FALSE, q, DigitRun(s, q))

MarkerMatchAt(marker, s, p) ==
    IF Slice(s, p, p + Len(marker) - 1) # marker THEN None
    ELSE MatchSigned(s, p + Len(marker))

\* matches[-1] if after_last else matches[0], None without a match
PickMatch(marker, string, after_last, hits) ==
    IF hits = {} THEN None
    ELSE MarkerMatchAt(marker, string,
                       IF after_last THEN Rightmost(hits) ELSE Leftmost(hits))

\* find_number_after_marker: the first or the last match of the pattern
find_number_after_marker(marker, string, after_last) ==
    PickMatch(marker, string, after_last,
              {p \in 1..Len(string) : MarkerMatchAt(marker, string, p).k # "none"})

\* \d+\.\d+|\d+ at position p, which starts with d1 digits and, after a
\* dot, d2 more
FirstNumberDigits(s, p, d1, d2) ==
    IF d2 > 0
    THEN Number(FALSE, Slice(s, p, p + d1 - 1), 1, Slice(s, p + d1 + 1, p + d1 + d2))
    ELSE Number(FALSE, Slice(s, p, p + d1 - 1), 0, <<>>)

FirstNumberRun(s, p, d1) ==
    FirstNumberDigits(s, p, d1,
                      IF p + d1 <= Len(s) /\ s[p + d1] = "."
                      THEN DigitRun(s, p + d1 + 1) ELSE 0)

FirstNumberAt(s, p) ==
    IF p = 0 THEN None ELSE FirstNumberRun(s, p, DigitRun(s, p))

\* find_first_number: leftmost match of \b\d+\.\d+|\b\d+
find_first_number(input_string) ==
    FirstNumberAt(input_string,
                  Leftmost({p \in 1..Len(input_string) :
                              /\ IsDigit(input_string[p])
                              /\ (p = 1 \/ ~IsWord(input_string[p - 1]))}))

(***************************************************************************)
(* Layer model                                                             *)
(***************************************************************************)
\* an exception propagating out of a constructor or a parse
Raised == [kind |-> "exception"]

IsRaised(x) == x.kind = "exception"

\* igdbcode = None, and igdbcode = a str
NoCode == [set |-> FALSE, s |-> <<>>]

Code(s) == [set |-> TRUE, s |-> s]

\* HeatTreatment
MONO == <<"M", "O", "N", "O">>
ANNEALED == <<"A">>
HEAT_STRENGTHENED == <<"H", "S">>
TOUGHENED == <<"T">>
TOUGHEND_HEATSOAKED == <<"T", "S">>
VAR == {MONO, ANNEALED, HEAT_STRENGTHENED, TOUGHENED, TOUGHEND_HEATSOAKED}

\* Interlayer.MATERIALS and GasLayer.MATERIALS
PVB == <<"P", "V", "B">>
SG == <<"S", "G">>
EVA == <<"E", "V", "A">>
InterlayerMATERIALS == {PVB, SG, EVA}

AIR == <<"A", "I", "R">>
ARGON == <<"A", "R">>
XENON == <<"X", "E">>
KRYPTON == <<"K", "R">>
GasMATERIALS == {AIR, ARGON, XENON, KRYPTON}

\* _BaseLayer.__init__ for the two separator classes, which add nothing to it
Interlayer(descriptor, t) ==
    [kind |-> "interlayer", descriptor |-> descriptor, t_nom |-> t, t_actual |-> t]

GasLayer(descriptor, t) ==
    [kind |-> "gas", descriptor |-> descriptor, t_nom |-> t, t_actual |-> t]

\* isinstance(l, GlassBuildup)
IsGlassBuildup(l) == l.kind \in {"mono", "lam", "igu"}

IsMultiLayer(l) == l.kind \in {"lam", "igu"}

\* MonoGlass.__init__: the class attributes of GlassBuildup give the unset
\* width, height, support, igdbcode and igdbflip
MonoGlass(heat_treatment, t_nom) ==
    IF heat_treatment \notin VAR THEN Raised
    ELSE [kind |-> "mono", descriptor |-> heat_treatment,
          t_nom |-> t_nom, t_actual |-> t_nom,
          width |-> None, height |-> None, support |-> None,
          igdbcode |-> NoCode, igdbflip |-> FALSE]

\* itertools.chain.from_iterable(itertools.zip_longest(a, b)) without the None
RECURSIVE ZipLongest(_, _)
ZipLongest(a, b) ==
    IF a = <<>> /\ b = <<>> THEN <<>>
    ELSE (IF a # <<>> THEN <<Head(a)>> ELSE <<>>)
         \o (IF b # <<>> THEN <<Head(b)>> ELSE <<>>)
         \o ZipLongest(IF a # <<>> THEN Tail(a) ELSE a,
                       IF b # <<>> THEN Tail(b) ELSE b)

\* MultiLayerGlassBuildup.__init__: thickness starts at THICKNESS_NOT_SET = 0
MultiLayerGlassBuildup(kind, descriptor, glass_layers, separator_layers) ==
    [kind |-> kind, descriptor |-> descriptor,
     t_nom |-> PyInt(0), t_actual |-> PyInt(0),
     layers |-> ZipLongest(glass_layers, separator_layers),
     width |-> None, height |-> None, support |-> None,
     igdbcode |-> NoCode, igdbflip |-> FALSE]

\* a count check that compares with len(glass) instead of len(glass) - 1
CountMismatchOffByOne(glass, separators) ==
    glass # <<>> /\ Len(separators) # Len(glass)

\* the count check of LaminatedGlass.__init__ and InsulatedGlass.__init__
CountMismatch(glass, separators) ==
    glass # <<>> /\ Len(separators) # Len(glass) - 1

LaminatedGlass(plies, interlayers) ==
    IF CountMismatch(plies, interlayers) THEN Raised
    ELSE MultiLayerGlassBuildup("lam", <<"l", "a", "m">>, plies, interlayers)

InsulatedGlass(lites, gases) ==
    IF CountMismatch(lites, gases) THEN Raised
    ELSE MultiLayerGlassBuildup("igu", <<"i", "g", "u">>, lites, gases)

\* self._layers[0::2] and self._layers[1::2]
Evens(layers) == [i \in 1..((Len(layers) + 1) \div 2) |-> layers[2 * i - 1]]

Odds(layers) == [i \in 1..(Len(layers) \div 2) |-> layers[2 * i]]

(***************************************************************************)
(* Derived thickness and the width / height / support setters              *)
(***************************************************************************)
\* self._t_nom = 0 at the start of the t_nom property
TNomStart(self) == PyInt(0)

\* the t_nom property: the stored value of a single layer; for a multi-layer
\* buildup the sum, from zero, of the t_nom of every layer that is not an
\* Interlayer
RECURSIVE t_nom(_)
RECURSIVE SumNom(_, _)
RECURSIVE SumNomAll(_, _)
\* a sum that does not leave the Interlayer out
SumNomAll(layers, acc) ==
    IF layers = <<>> THEN acc
    ELSE SumNomAll(Tail(layers), NumAdd(acc, t_nom(Head(layers))))

SumNom(layers, acc) ==
    IF layers = <<>> THEN acc
    ELSE SumNom(Tail(layers),
                IF Head(layers).kind = "interlayer" THEN acc
                ELSE NumAdd(acc, t_nom(Head(layers))))

t_nom(self) ==
    IF IsMultiLayer(self) THEN SumNom(self.layers, TNomStart(self))
    ELSE self.t_nom

\* the object after its t_nom has been read: the property stores the sum in
\* self._t_nom, and so does the property of every layer it read
RECURSIVE AfterTNom(_)
AfterTNom(self) ==
    IF IsMultiLayer(self)
    THEN [self EXCEPT !.t_nom = t_nom(self),
                      !.layers = [i \in DOMAIN self.layers |->
                                    IF self.layers[i].kind = "interlayer"
                                    THEN self.layers[i]
                                    ELSE AfterTNom(self.layers[i])]]
    ELSE self

\* the width, height and support setters: GlassBuildup's stores the value,
\* MultiLayerGlassBuildup's stores it and assigns it to every layer that is
\* a GlassBuildup, through that layer's own setter
RECURSIVE Setter(_, _, _)
\* a setter that stores the value in each layer without going through the
\* layer's own setter
SetterShallow(self, attr, v) ==
    IF IsMultiLayer(self)
    THEN [self EXCEPT ![attr] = v,
                      !.layers = [i \in DOMAIN self.layers |->
                                    IF IsGlassBuildup(self.layers[i])
                                    THEN [self.layers[i] EXCEPT ![attr] = v]
                                    ELSE self.layers[i]]]
    ELSE [self EXCEPT ![attr] = v]

Setter(self, attr, v) ==
    IF IsMultiLayer(self)
    THEN [self EXCEPT ![attr] = v,
                      !.layers = [i \in DOMAIN self.layers |->
                                    IF IsGlassBuildup(self.layers[i])
                                    THEN Setter(self.layers[i], attr, v)
                                    ELSE self.layers[i]]]
    ELSE [self EXCEPT ![attr] = v]

(***************************************************************************)
(* Serializer                                                              *)
(***************************************************************************)
\* the tail of add_meta: g_str with '-' and s behind it when s is not empty
AppendMeta(g_str, s) == IF s # <<>> THEN g_str \o META \o s ELSE g_str

add_meta(self, g_str) ==
    AppendMeta(g_str,
        (IF Truthy(self.width) THEN WIDTH \o NumStr(self.width) ELSE <<>>)
        \o (IF Truthy(self.height) THEN HEIGHT \o NumStr(self.height) ELSE <<>>)
        \o (IF Truthy(self.support) THEN SUPPORT \o NumStr(self.support) ELSE <<>>))

add_igdbcode(self, g_str) ==
    IF self.igdbcode.set /\ self.igdbcode.s # <<>>
    THEN IGDB_START \o self.igdbcode.s
         \o (IF self.igdbflip THEN IGDB_FLIP ELSE <<>>)
         \o <<"(">> \o g_str \o <<")">>
    ELSE g_str

\* _BaseLayer.to_gstr
BaseLayer_to_gstr(self) == NumStr(t_nom(self)) \o self.descriptor

RECURSIVE to_gstr(_, _)
\* InsulatedGlass.to_gstr walks lites and gases in step
RECURSIVE LitesAndGases(_, _, _)
LitesAndGases(lites, gases, i) ==
    IF i > Len(lites) THEN <<>>
    ELSE <<to_gstr(lites[i], FALSE)>>
         \o (IF i <= Len(gases) THEN <<to_gstr(gases[i], FALSE)>> ELSE <<>>)
         \o LitesAndGases(lites, gases, i + 1)

\* the end of the to_gstr of a GlassBuildup: add_meta if inc_meta
CodeAndMeta(self, inc_meta, g) == IF inc_meta THEN add_meta(self, g) ELSE g

to_gstr(self, inc_meta) ==
    IF self.kind = "lam"
    THEN CodeAndMeta(self, inc_meta, add_igdbcode(self,
             Join([i \in DOMAIN self.layers |-> to_gstr(self.layers[i], FALSE)],
                  INTERLAYER_SEPARATOR)))
    ELSE IF self.kind = "igu"
    THEN CodeAndMeta(self, inc_meta, add_igdbcode(self,
             Join(LitesAndGases(Evens(self.layers), Odds(self.layers), 1),
                  GAS_SEPARATOR)))
    ELSE IF self.kind = "mono"
    THEN CodeAndMeta(self, inc_meta, add_igdbcode(self, BaseLayer_to_gstr(self)))
    ELSE BaseLayer_to_gstr(self)

(***************************************************************************)
(* Parser                                                                  *)
(***************************************************************************)
\* the class a layer token is parsed into
Construct(cls, descriptor, t) ==
    IF cls = "mono" THEN MonoGlass(descriptor, t)
    ELSE IF cls = "interlayer" THEN Interlayer(descriptor, t)
    ELSE GasLayer(descriptor, t)

\* _BaseLayer.init_from_g_str: g_str.split(str(thickness))[-1] is the
\* descriptor
LastPiece(pieces) == pieces[Len(pieces)]

InitFromThickness(cls, g, thickness) ==
    Construct(cls, LastPiece(Split(g, NumStr(thickness))), thickness)

InitFromStripped(cls, g) == InitFromThickness(cls, g, find_first_number(g))

BaseLayer_init_from_g_str(cls, g_str) == InitFromStripped(cls, Strip(g_str))

\* what parse_meta and parse_igdbcode leave: the object, changed in place,
\* and the text they return
Parsed(self, g_str) == [kind |-> "ok", self |-> self, g_str |-> g_str]

\* GlassBuildup.parse_meta: the three numbers are looked up in the whole of
\* g_str and assigned through the setters; the text before the first '-' is
\* returned
AssignMeta(self, g_str, w, h, s) ==
    IF "error" \in {w.k, h.k, s.k} THEN Raised
    ELSE Parsed(Setter(Setter(Setter(self, "width", w), "height", h), "support", s),
                Split(g_str, META)[1])

parse_meta(self, g_str) ==
    IF Contains(g_str, META)
    THEN AssignMeta(self, g_str,
                    find_number_after_marker(WIDTH, g_str, TRUE),
                    find_number_after_marker(HEIGHT, g_str, TRUE),
                    find_number_after_marker(SUPPORT, g_str, TRUE))
    ELSE Parsed(self, g_str)

\* GlassBuildup.parse_igdbcode; pairs[-1] of an empty list raises IndexError
AssignCode(self, g_str, last_br_pair, x) ==
    IF FindFrom(g_str, IGDB_OPEN_BRACKET, 1) = last_br_pair[1]
    THEN Parsed([self EXCEPT !.igdbflip = EndsWith(x, IGDB_FLIP),
                             !.igdbcode = Code(Split(x, IGDB_FLIP)[1])],
                Slice(g_str, last_br_pair[1] + 1, last_br_pair[2] - 1))
    ELSE Parsed(self, g_str)

LastPair(self, g_str, pairs) ==
    IF pairs = <<>> THEN Raised
    ELSE AssignCode(self, g_str, pairs[Len(pairs)],
                    Slice(g_str, 2, pairs[Len(pairs)][1] - 1))

parse_igdbcode(self, g_str) ==
    IF StartsWith(g_str, IGDB_START) /\ EndsWith(g_str, IGDB_CLOSE_BRACKET)
    THEN LastPair(self, g_str, find_enclosed_brackets(g_str).pairs)
    ELSE Parsed(self, g_str)

\* the first two statements of every init_from_g_str of a GlassBuildup:
\* g_str = obj.parse_meta(g_str); g_str = obj.parse_igdbcode(g_str)
CodeAfterMeta(m) == IF IsRaised(m) THEN Raised ELSE parse_igdbcode(m.self, m.g_str)

ParseHeader(self, g_str) == CodeAfterMeta(parse_meta(self, g_str))

\* MonoGlass.init_from_g_str
MonoFromBase(mono, m) ==
    IF IsRaised(m) THEN Raised
    ELSE [mono EXCEPT !.descriptor = m.descriptor,
                      !.t_nom = m.t_nom, !.t_actual = m.t_actual]

MonoFromHeader(h) ==
    IF IsRaised(h) THEN Raised
    ELSE MonoFromBase(h.self, BaseLayer_init_from_g_str("mono", h.g_str))

MonoGlass_init_from_g_str(g_str) ==
    MonoFromHeader(ParseHeader(MonoGlass(MONO, None), g_str))

\* a parse that assigns the metadata after the layers are in place
AppendLayersThenAssign(self, layers) ==
    Setter(Setter(Setter([self EXCEPT !.layers = self.layers \o layers],
                         "width", self.width), "height", self.height),
           "support", self.support)

\* the loop of lam._layers.append / igu._layers.append over parsed layers
AppendLayers(self, layers) == [self EXCEPT !.layers = self.layers \o layers]

\* a parsed composite, or the exception one of its layers raised
Assemble(self, layers) ==
    IF \E i \in DOMAIN layers : IsRaised(layers[i]) THEN Raised
    ELSE AppendLayers(self, layers)

\* LaminatedGlass.init_from_g_str; enumerate counts from 0, positions from 1
LamFromTokens(lam, tokens) ==
    Assemble(lam, [i \in DOMAIN tokens |->
                     IF i % 2 = 1 THEN MonoGlass_init_from_g_str(tokens[i])
                     ELSE BaseLayer_init_from_g_str("interlayer", tokens[i])])

LamFromHeader(h) ==
    IF IsRaised(h) THEN Raised
    ELSE LamFromTokens(h.self, Split(h.g_str, INTERLAYER_SEPARATOR))

LaminatedGlass_init_from_g_str(g_str) ==
    LamFromHeader(ParseHeader(LaminatedGlass(<<>>, <<>>), g_str))

RECURSIVE make_glass(_)
\* InsulatedGlass.init_from_g_str
IguFromTokens(igu, tokens) ==
    Assemble(igu, [i \in DOMAIN tokens |->
                     IF i % 2 = 1 THEN make_glass(tokens[i])
                     ELSE BaseLayer_init_from_g_str("gas", tokens[i])])

IguFromHeader(h) ==
    IF IsRaised(h) THEN Raised
    ELSE IguFromTokens(h.self, Split(h.g_str, GAS_SEPARATOR))

InsulatedGlass_init_from_g_str(g_str) ==
    IguFromHeader(ParseHeader(InsulatedGlass(<<>>, <<>>), g_str))

\* GlassBuildup.make_glass
make_glass(g_str) ==
    IF Contains(g_str, GAS_SEPARATOR) THEN InsulatedGlass_init_from_g_str(g_str)
    ELSE IF Contains(g_str, INTERLAYER_SEPARATOR) \/ StartsWith(g_str, LAM)
         THEN LaminatedGlass_init_from_g_str(g_str)
    ELSE MonoGlass_init_from_g_str(g_str)

(***************************************************************************)
(* A driver program: it constructs layers and buildups, assigns the         *)
(* attributes of the one object it holds, reads t_nom, renders one buildup *)
(* and parses the text back (as examples/igu.py does).  An exception a     *)
(* constructor raises is not caught: it ends the program.                  *)
(***************************************************************************)
VARIABLES
    stack,      \* the glass objects the program holds, the latest last
    call,       \* the latest operation and its arguments
    ret,        \* what the latest operation returned, None if nothing
    g_str,      \* the text rendered from the buildup, or the text given
    parsed,     \* make_glass(g_str)
    g_str2,     \* parsed.to_gstr()
    pc,         \* "build", "raised", "read", "rendered", "parsed", "rerendered"
    n_set       \* attribute assignments so far

vars == <<stack, call, ret, g_str, parsed, g_str2, pc, n_set>>

\* bounds of the driver program: the panes it constructs, the objects it
\* holds before it combines them, and the attribute assignments it makes
MaxMonos == 3
MaxHeld == 2
MaxAssign == 1

\* inputs of the driver program
HeatInputs == {ANNEALED, MONO, <<"Q">>}
ThicknessInputs == {PyInt(6)}
InterlayerInputs == {Interlayer(PVB, PyFloat(0, <<"7", "6">>))}
GasInputs == {GasLayer(ARGON, PyFloat(13, <<"2">>))}
WidthInputs == {PyInt(3000)}
HeightInputs == {PyInt(4000)}
SupportInputs == {PyInt(4)}
CodeInputs == {<<"2", "0">>, <<"a", "x", "1">>}
FlipInputs == {TRUE}

\* sequences over S of length 0..n
SeqsUpTo(S, n) == UNION {[1..k -> S] : k \in 0..n}

\* the panes of a buildup, and of a list of buildups
RECURSIVE CountMonos(_)
RECURSIVE CountMonosIn(_)
CountMonosIn(layers) ==
    IF layers = <<>> THEN 0 ELSE CountMonos(Head(layers)) + CountMonosIn(Tail(layers))

CountMonos(b) ==
    IF b.kind = "mono" THEN 1
    ELSE IF IsMultiLayer(b) THEN CountMonosIn(b.layers)
    ELSE 0

NoCall == [op |-> "none", glass |-> <<>>, seps |-> <<>>, v |-> None]

Top == stack[Len(stack)]

\* the last n objects of the stack, and the stack without them
TopN(n) == Slice(stack, Len(stack) - n + 1, Len(stack))

Below(n) == Slice(stack, 1, Len(stack) - n)

Init ==
    /\ stack = <<>>
    /\ call = NoCall
    /\ ret = None
    /\ g_str = <<>>
    /\ parsed = None
    /\ g_str2 = <<>>
    /\ pc = "build"
    /\ n_set = 0

\* m = MonoGlass(heat_treatment, t)
NewMono ==
    /\ pc = "build"
    /\ CountMonosIn(stack) < MaxMonos
    /\ Len(stack) < MaxHeld
    /\ \E ht \in HeatInputs, t \in ThicknessInputs :
         LET m == MonoGlass(ht, t)
         IN  /\ ret' = m
             /\ call' = [NoCall EXCEPT !.op = "MonoGlass"]
             /\ stack' = IF IsRaised(m) THEN <<>> ELSE Append(stack, m)
             /\ pc' = IF IsRaised(m) THEN "raised" ELSE pc
    /\ UNCHANGED <<g_str, parsed, g_str2, n_set>>

\* lam = LaminatedGlass(plies, interlayers), plies the latest n panes
NewLaminated ==
    /\ pc = "build"
    /\ \E n \in 1..Len(stack) :
         /\ \A i \in DOMAIN TopN(n) : TopN(n)[i].kind = "mono"
         /\ \E ils \in SeqsUpTo(InterlayerInputs, n) :
              LET lam == LaminatedGlass(TopN(n), ils)
              IN  /\ ret' = lam
                  /\ call' = [NoCall EXCEPT !.op = "LaminatedGlass",
                                            !.glass = TopN(n), !.seps = ils]
                  /\ stack' = IF IsRaised(lam) THEN <<>>
                              ELSE Append(Below(n), lam)
                  /\ pc' = IF IsRaised(lam) THEN "raised" ELSE pc
    /\ UNCHANGED <<g_str, parsed, g_str2, n_set>>

\* igu = InsulatedGlass(lites, gases), lites the latest n panes and laminates
NewInsulated ==
    /\ pc = "build"
    /\ \E n \in 1..Len(stack) :
         /\ \A i \in DOMAIN TopN(n) : TopN(n)[i].kind \in {"mono", "lam"}
         /\ \E gases \in SeqsUpTo(GasInputs, n) :
              LET igu == InsulatedGlass(TopN(n), gases)
              IN  /\ ret' = igu
                  /\ call' = [NoCall EXCEPT !.op = "InsulatedGlass",
                                            !.glass = TopN(n), !.seps = gases]
                  /\ stack' = IF IsRaised(igu) THEN <<>>
                              ELSE Append(Below(n), igu)
                  /\ pc' = IF IsRaised(igu) THEN "raised" ELSE pc
    /\ UNCHANGED <<g_str, parsed, g_str2, n_set>>

\* b.<attr> = v through the property setter, b the one object held
Assign(attr, v) ==
    /\ pc = "build"
    /\ Len(stack) = 1
    /\ n_set < MaxAssign
    /\ stack' = [stack EXCEPT ![Len(stack)] = Setter(Top, attr, v)]
    /\ call' = [NoCall EXCEPT !.op = attr, !.v = v]
    /\ ret' = None
    /\ n_set' = n_set + 1
    /\ UNCHANGED <<g_str, parsed, g_str2, pc>>

SetWidth == \E v \in WidthInputs : Assign("width", v)

SetHeight == \E v \in HeightInputs : Assign("height", v)

SetSupport == \E v \in SupportInputs : Assign("support", v)

\* b.igdbcode = code
SetIgdbcode ==
    /\ pc = "build"
    /\ Len(stack) = 1
    /\ n_set < MaxAssign
    /\ \E c \in CodeInputs :
         stack' = [stack EXCEPT ![Len(stack)] = [Top EXCEPT !.igdbcode = Code(c)]]
    /\ call' = [NoCall EXCEPT !.op = "igdbcode"]
    /\ ret' = None
    /\ n_set' = n_set + 1
    /\ UNCHANGED <<g_str, parsed, g_str2, pc>>

\* b.igdbflip = flip
SetIgdbflip ==
    /\ pc = "build"
    /\ Len(stack) = 1
    /\ n_set < MaxAssign
    /\ \E flip \in FlipInputs :
         stack' = [stack EXCEPT ![Len(stack)] = [Top EXCEPT !.igdbflip = flip]]
    /\ call' = [NoCall EXCEPT !.op = "igdbflip"]
    /\ ret' = None
    /\ n_set' = n_set + 1
    /\ UNCHANGED <<g_str, parsed, g_str2, pc>>

\* b.t_nom, read from the one buildup the program has built, any number of
\* times
ReadTNom ==
    /\ pc \in {"build", "read"}
    /\ Len(stack) = 1
    /\ ret' = t_nom(Top)
    /\ stack' = <<AfterTNom(Top)>>
    /\ call' = [NoCall EXCEPT !.op = "t_nom"]
    /\ pc' = "read"
    /\ UNCHANGED <<g_str, parsed, g_str2, n_set>>

\* gs = b.to_gstr(), b the one buildup the program has built
Render ==
    /\ pc = "build"
    /\ Len(stack) = 1
    /\ g_str' = to_gstr(Top, TRUE)
    /\ pc' = "rendered"
    /\ call' = [NoCall EXCEPT !.op = "to_gstr"]
    /\ ret' = None
    /\ UNCHANGED <<stack, parsed, g_str2, n_set>>

\* b2 = GlassBuildup.make_glass(gs)
Parse ==
    /\ pc = "rendered"
    /\ parsed' = make_glass(g_str)
    /\ pc' = "parsed"
    /\ call' = [NoCall EXCEPT !.op = "make_glass"]
    /\ UNCHANGED <<stack, ret, g_str, g_str2, n_set>>

\* gs2 = b2.to_gstr()
ReRender ==
    /\ pc = "parsed"
    /\ ~IsRaised(parsed)
    /\ g_str2' = to_gstr(parsed, TRUE)
    /\ pc' = "rerendered"
    /\ call' = [NoCall EXCEPT !.op = "to_gstr"]
    /\ UNCHANGED <<stack, ret, g_str, parsed, n_set>>

Next ==
    \/ NewMono
    \/ NewLaminated
    \/ NewInsulated
    \/ SetWidth
    \/ SetHeight
    \/ SetSupport
    \/ SetIgdbcode
    \/ SetIgdbflip
    \/ ReadTNom
    \/ Render
    \/ Parse
    \/ ReRender

Spec == Init /\ [][Next]_vars

(***************************************************************************)
(* The scanners and parsers applied to arbitrary short texts                *)
(***************************************************************************)
MaxLen == 4

InputChars == {"6", "A", "&", "_", "#", "(", ")", ".", "-", " "}

InitInput ==
    /\ g_str \in SeqsUpTo(InputChars, MaxLen)
    /\ stack = <<>>
    /\ call = NoCall
    /\ ret = None
    /\ parsed = None
    /\ g_str2 = <<>>
    /\ pc = "input"
    /\ n_set = 0

\* ret is the result of op applied to the text
Apply(op, result) ==
    /\ pc = "input"
    /\ ret' = result
    /\ call' = [NoCall EXCEPT !.op = op]
    /\ pc' = "done"
    /\ UNCHANGED <<stack, g_str, parsed, g_str2, n_set>>

\* gstr.find_enclosed_brackets(text)
ScanText == Apply("find_enclosed_brackets", find_enclosed_brackets(g_str))

\* mono.parse_igdbcode(text) on a fresh pane
ExtractIdentifier ==
    Apply("parse_igdbcode", parse_igdbcode(MonoGlass(MONO, None), g_str))

\* MonoGlass.init_from_g_str(text)
ParsePane == Apply("MonoGlass", MonoGlass_init_from_g_str(g_str))

\* Interlayer.init_from_g_str(text)
ParseInterlayer == Apply("Interlayer", BaseLayer_init_from_g_str("interlayer", g_str))

\* GasLayer.init_from_g_str(text)
ParseGasLayer == Apply("GasLayer", BaseLayer_init_from_g_str("gas", g_str))

\* GlassBuildup.make_glass(text)
ParseText == Apply("make_glass", make_glass(g_str))

NextInput ==
    \/ ScanText
    \/ ExtractIdentifier
    \/ ParsePane
    \/ ParseInterlayer
    \/ ParseGasLayer
    \/ ParseText

SpecInput == InitInput /\ [][NextInput]_vars

(***************************************************************************)
(* Properties                                                              *)
(***************************************************************************)
\* structural equality of two layers: variant, thickness and descriptor,
\* width / height / support, identifier code and flip, and the layers,
\* recursively; numbers compare as Python == compares them
RECURSIVE StructEq(_, _)
StructEq(a, b) ==
    /\ a.kind = b.kind
    /\ a.kind # "exception"
    /\ IF IsMultiLayer(a)
       THEN /\ Len(a.layers) = Len(b.layers)
            /\ \A i \in DOMAIN a.layers : StructEq(a.layers[i], b.layers[i])
       ELSE NumEq(a.t_nom, b.t_nom) /\ a.descriptor = b.descriptor
    /\ IsGlassBuildup(a) =>
         /\ NumEq(a.width, b.width)
         /\ NumEq(a.height, b.height)
         /\ NumEq(a.support, b.support)
         /\ a.igdbcode = b.igdbcode
         /\ a.igdbflip = b.igdbflip

\* the glass-bearing sub-buildups of b at every depth, b itself excluded
RECURSIVE SubBuildups(_)
SubBuildups(b) ==
    IF IsMultiLayer(b)
    THEN UNION {{b.layers[i]} \cup SubBuildups(b.layers[i]) :
                  i \in {j \in DOMAIN b.layers : IsGlassBuildup(b.layers[j])}}
    ELSE {}

\* b with width, height and support erased at every depth
RECURSIVE Bare(_)
Bare(b) ==
    IF IsMultiLayer(b)
    THEN [b EXCEPT !.width = None, !.height = None, !.support = None,
                   !.layers = [i \in DOMAIN b.layers |-> Bare(b.layers[i])]]
    ELSE IF IsGlassBuildup(b)
    THEN [b EXCEPT !.width = None, !.height = None, !.support = None]
    ELSE b

\* the indices of the layers of one kind
OfKind(b, kinds) == {i \in DOMAIN b.layers : b.layers[i].kind \in kinds}

\* sum of f[i] over the finite index set I
RECURSIVE SumOver(_, _)
SumOver(I, f) ==
    IF I = {} THEN 0
    ELSE LET i == CHOOSE x \in I : TRUE IN f[i] + SumOver(I \ {i}, f)

\* C1: a directly constructed buildup, rendered and parsed back, gives a
\* buildup structurally equal to it (the parse does not fail).
RoundTrip ==
    pc = "parsed" => ~IsRaised(parsed) /\ StructEq(parsed, Top)

\* C2: rendering the parse of a rendered buildup reproduces the rendered text
\* character for character.
IdempotentReRender ==
    /\ pc = "parsed" => ~IsRaised(parsed)
    /\ pc = "rerendered" => g_str2 = g_str

\* C3: LaminatedGlass / InsulatedGlass with a non-empty glass list and a
\* separator count other than len(glass) - 1 raises and returns no object;
\* with matching counts the object holds glass[1], sep[1], glass[2], ... in
\* the given order.
ConstructionCountCheck ==
    call.op \in {"LaminatedGlass", "InsulatedGlass"} /\ call.glass # <<>> =>
        IF Len(call.seps) # Len(call.glass) - 1
        THEN IsRaised(ret)
        ELSE /\ ret.kind = (IF call.op = "LaminatedGlass" THEN "lam" ELSE "igu")
             /\ Top = ret
             /\ Len(ret.layers) = 2 * Len(call.glass) - 1
             /\ \A i \in DOMAIN call.glass : ret.layers[2 * i - 1] = call.glass[i]
             /\ \A i \in DOMAIN call.seps : ret.layers[2 * i] = call.seps[i]

ConstructionCountWitness ==
    /\ call.op = "LaminatedGlass"
    /\ Len(call.glass) = 2
    /\ Len(call.seps) = 2
    /\ IsRaised(ret)

\* whether the brackets of s are unbalanced: some ')' has no earlier
\* unmatched '(' or some '(' is unmatched at the end
Opens(s, n) == Cardinality({i \in 1..n : s[i] = "("})

Closes(s, n) == Cardinality({i \in 1..n : s[i] = ")"})

Unbalanced(s) ==
    \/ \E n \in 1..Len(s) : Closes(s, n) > Opens(s, n)
    \/ Opens(s, Len(s)) # Closes(s, Len(s))

\* C4: on a text with unbalanced brackets the bracket scanner signals an
\* error instead of returning pairs, and the identifier extraction that
\* scans such a text fails.
UnbalancedIsError ==
    pc = "done" /\ Unbalanced(g_str) =>
        /\ call.op = "find_enclosed_brackets" => ret.raised
        /\ (/\ call.op = "parse_igdbcode"
            /\ StartsWith(g_str, IGDB_START)
            /\ EndsWith(g_str, IGDB_CLOSE_BRACKET)) => IsRaised(ret)

\* C5: a layer parsed from a token carries a descriptor of its variant's
\* enumerated set; a token with any other descriptor is rejected.
ParsedDescriptorValid ==
    pc = "done" /\ call.op \in {"MonoGlass", "Interlayer", "GasLayer"}
                /\ ~IsRaised(ret) =>
        ret.descriptor \in
            (IF call.op = "MonoGlass" THEN VAR \ {MONO}
             ELSE IF call.op = "Interlayer" THEN InterlayerMATERIALS
             ELSE GasMATERIALS)

\* C6: the text to_gstr returns never contains "MONO".
SentinelNotSerialized ==
    /\ pc \in {"rendered", "parsed", "rerendered"} => ~Contains(g_str, MONO)
    /\ pc = "rerendered" => ~Contains(g_str2, MONO)

\* C7: assigning width, height or support on a Laminated or Insulated
\* buildup gives every glass-bearing sub-buildup, at every depth, the value,
\* and changes nothing else in the layers.
CascadeWriteThrough ==
    [][(/\ n_set' = n_set + 1
        /\ call'.op \in {"width", "height", "support"}
        /\ IsMultiLayer(Top))
       => LET new == stack'[Len(stack')]
          IN  /\ new[call'.op] = call'.v
              /\ \A l \in SubBuildups(new) : l[call'.op] = call'.v
              /\ Bare(new) = Bare(Top)]_vars

CascadeWitness ==
    /\ call.op = "width"
    /\ stack # <<>>
    /\ Top.kind = "igu"
    /\ \E i \in OfKind(Top, {"lam"}) :
         /\ Top.layers[i].width = call.v
         /\ \E j \in OfKind(Top.layers[i], {"mono"}) :
              Top.layers[i].layers[j].width = call.v
    /\ OfKind(Top, {"gas"}) # {}

\* the nominal thickness, in 1/10000 mm, the glass of a laminate adds up to
PlyTotal(lam) ==
    SumOver(OfKind(lam, {"mono"}), [i \in DOMAIN lam.layers |-> Scaled(lam.layers[i].t_nom)])

\* C8: t_nom of a Laminated buildup is the sum of its plies' nominal
\* thicknesses, without the interlayers; t_nom of an Insulated buildup is the
\* sum over its lites (a Laminated lite counting its plies) plus its gas
\* layers; every read returns that sum.
NominalThickness ==
    pc = "read" /\ IsMultiLayer(Top) =>
        /\ ret.k \in {"int", "float"}
        /\ Top.kind = "lam" => Scaled(ret) = PlyTotal(Top)
        /\ Top.kind = "igu" =>
             Scaled(ret) =
                 SumOver(OfKind(Top, {"mono", "gas"}),
                         [i \in DOMAIN Top.layers |-> Scaled(Top.layers[i].t_nom)])
                 + SumOver(OfKind(Top, {"lam"}),
                           [i \in DOMAIN Top.layers |-> PlyTotal(Top.layers[i])])

NominalThicknessWitness ==
    /\ pc = "read"
    /\ Top.kind = "igu"
    /\ OfKind(Top, {"gas"}) # {}
    /\ \E i \in OfKind(Top, {"lam"}) : OfKind(Top.layers[i], {"interlayer"}) # {}
    /\ Scaled(ret) > 0

\* the separators and the glass-bearing layers of a parsed composite
Separators(b) == OfKind(b, {"interlayer", "gas"})

GlassLayers(b) == OfKind(b, {"mono", "lam", "igu"})

\* C9: a Laminated or Insulated buildup returned by a parse, with at least
\* one glass-bearing layer, has one separator fewer than glass-bearing
\* layers.
ParsedCountInvariant ==
    pc = "done" /\ call.op = "make_glass" /\ ~IsRaised(ret)
                /\ IsMultiLayer(ret) /\ GlassLayers(ret) # {} =>
        Cardinality(Separators(ret)) = Cardinality(GlassLayers(ret)) - 1

\* C10: a composite parsed from a text with a metadata tail keeps width,
\* height and support to itself: every glass-bearing sub-buildup has all
\* three unset.
ParsedMetadataStaysOnTop ==
    pc \in {"parsed", "rerendered"} /\ ~IsRaised(parsed)
        /\ IsMultiLayer(parsed) /\ Contains(g_str, META) =>
        \A l \in SubBuildups(parsed) :
            l.width = None /\ l.height = None /\ l.support = None

ParsedMetadataWitness ==
    /\ pc = "parsed"
    /\ ~IsRaised(parsed)
    /\ parsed.kind = "igu"
    /\ parsed.width = PyInt(3000)
    /\ SubBuildups(parsed) # {}
    /\ \A l \in SubBuildups(Top) : l.width = PyInt(3000)
    /\ \E i \in OfKind(parsed, {"lam"}) : TRUE

====
